---------------------------- MODULE Spec2Model ----------------------------
(***************************************************************************)
(* Drawing-Machine: the raster-skeleton-to-toolpath conversion engine of   *)
(* image2gcode.py (class StrokeProcessor), the G-code file written by      *)
(* Image2GcodeApp.save_gcode and the calibration helpers of                *)
(* calibration/conversion_utils.py; the stop-and-wait sender of            *)
(* gcode_sender.py (class GcodeSenderApp) with the device behind its       *)
(* serial port; the position tracking of calibration/extract_points.py     *)
(* (class CalibrationApp).                                                 *)
(*                                                                         *)
(* Pixels are pairs <<x, y>> (x = column, y = row, y grows downward).      *)
(* Millimetre values are exact rationals <<num, den>> with den > 0; the    *)
(* source computes them in binary floating point.  Step values are         *)
(* integers.                                                               *)
(***************************************************************************)
EXTENDS Integers, Sequences, FiniteSets

(***************************************************************************)
(* Bounds of the model.                                                    *)
(***************************************************************************)
\* largest image width and height of the conversion pipeline
MaxW == 3
MaxH == 3
\* largest number of foreground pixels of a mask
MaxFg == 5
\* largest image width and height of the coordinate-mapping specification
MaxMapDim == 5
\* largest number of lines of a file loaded by the sender
MaxFileLines == 3
\* largest number of Test / Home / manual commands written to the port between
\* two job starts
MaxUiCommands == 1
\* number of thread slots of the sender
MaxThreads == 2
\* number of unanswered commands the device keeps
DeviceBuffer == 2
\* largest number of moves and resets of a calibration session
MaxEvents == 4

(***************************************************************************)
(* Program constants.                                                      *)
(***************************************************************************)
PLOTTER_PHYSICAL_LIMIT_X_MM == 156
PLOTTER_PHYSICAL_LIMIT_Y_MM == 156

VARIABLES
    skeleton,           \* self.skeleton: the set of foreground pixels
    img_w, img_h,       \* self.img_w, self.img_h
    plotter_w, plotter_h, \* self.plotter_w, self.plotter_h (mm)
    cal,                \* conversion_utils X and Y: the loaded calibration
    scale,              \* self.scale, a rational
    pc,                 \* position of the run
    point, mapped,      \* argument and result of the last _map_to_plotter_coords call
    strokes,            \* strokes: the list of paths built by _extract_strokes
    visited,            \* visited: set of directed pixel pairs
    p_idx,              \* index of p_start in pixels (phase-1 outer loop)
    dir,                \* index of the (dr, dc) offset of the phase-1 direction loop
    path,               \* path: the stroke being traced
    remaining_pixels,   \* remaining_pixels of the closed-loop sweep
    extracted,          \* the list returned by _extract_strokes, as returned
    remaining_strokes,  \* remaining_strokes: references (indices) into strokes
    current_pos,        \* current_pos (steps)
    gcode_lines,        \* gcode_lines
    first_run,          \* <<result>> of an earlier _extract_strokes call on the same mask, or <<>>
    gcode_file,         \* the lines save_gcode wrote to save_path, or None
    sender_lines,       \* GcodeSenderApp.gcode_lines
    is_sending,         \* GcodeSenderApp.is_sending
    widget,             \* state ("normal" / "disabled") of the sender's widgets
    manual_text,        \* contents of manual_entry
    status_var,         \* GcodeSenderApp.status_var, by the kind of message (one kind for the
                        \* messages of the Test / Home / manual handlers)
    ui,                 \* position of the Tk main loop: "idle" or inside a handler
    worker,             \* per thread slot: position, loop index i, response
    finalize_pending,   \* number of queued after(0, _finalize_sending) callbacks
    trace,              \* writes and answers on self.ser, stop requests: since the last load or start
    ser_in,             \* the port's input buffer: lines sent by the device, unread
    dev_pending,        \* commands the device received and has not answered
    current_steps,      \* CalibrationApp.current_steps
    moves               \* the moves and resets of the calibration session, in order

vars == <<skeleton, img_w, img_h, plotter_w, plotter_h, cal, scale, pc, point,
          mapped, strokes, visited, p_idx, dir, path, remaining_pixels,
          extracted, remaining_strokes, current_pos, gcode_lines, first_run, gcode_file,
          sender_lines, is_sending, widget, manual_text, status_var, ui, worker,
          finalize_pending, trace, ser_in, dev_pending, current_steps, moves>>

senderVars == <<sender_lines, is_sending, widget, manual_text, status_var, ui, worker,
                finalize_pending, trace, ser_in, dev_pending>>
collectorVars == <<current_steps, moves>>
\* the state of the two serial applications
deviceVars == <<senderVars, collectorVars>>
\* the state of the conversion pipeline and of save_gcode
convertVars == <<skeleton, img_w, img_h, plotter_w, plotter_h, cal, scale, pc, point,
                 mapped, strokes, visited, p_idx, dir, path, remaining_pixels,
                 extracted, remaining_strokes, current_pos, gcode_lines, first_run,
                 gcode_file>>

inputVars == <<skeleton, img_w, img_h, plotter_w, plotter_h, cal>>
mapVars == <<point, mapped>>
extractVars == <<strokes, visited, p_idx, dir, path, remaining_pixels, extracted>>
optVars == <<remaining_strokes, current_pos, gcode_lines>>

\* no value yet (a pixel or a step pair is a pair, never the empty tuple)
None == <<>>

(***************************************************************************)
(* Exact rational arithmetic on <<num, den>>, den > 0.                     *)
(***************************************************************************)
Rat(n, d) == <<n, d>>
RatInt(n) == <<n, 1>>
RatLess(a, b) == a[1] * b[2] < b[1] * a[2]
RatLeq(a, b) == a[1] * b[2] <= b[1] * a[2]
RatEq(a, b) == a[1] * b[2] = b[1] * a[2]
RatAdd(a, b) == <<a[1] * b[2] + b[1] * a[2], a[2] * b[2]>>
RatSub(a, b) == <<a[1] * b[2] - b[1] * a[2], a[2] * b[2]>>
RatMul(a, b) == <<a[1] * b[1], a[2] * b[2]>>

\* Python's min(a, b) and max(a, b): the first argument wins a tie
PyMin(a, b) == IF RatLess(b, a) THEN b ELSE a
PyMax(a, b) == IF RatLess(a, b) THEN b ELSE a


\* Python's round() of an exact rational: to the nearest integer, ties to even
RoundHalfEven(r) ==
    LET q == r[1] \div r[2]
        rem == r[1] - q * r[2]
    IN  IF 2 * rem < r[2] THEN q
        ELSE IF 2 * rem > r[2] THEN q + 1
        ELSE IF q % 2 = 0 THEN q ELSE q + 1

(***************************************************************************)
(* calibration/conversion_utils.py.  calibration.yaml is data that is not  *)
(* part of the sources: an axis is any {slope, intercept,                  *)
(* physical_limit_mm}.                                                     *)
(***************************************************************************)
AxisCal(s, i, l) == [slope |-> s, intercept |-> i, physical_limit_mm |-> l]

AxisCalibrations ==
    { AxisCal(Rat(1, 1), Rat(0, 1), 156),     \* steps equal millimetres
      AxisCal(Rat(1, 1), Rat(0, 1), 50),      \* travel limit below the device size
      AxisCal(Rat(5, 2), Rat(1, 2), 156),     \* fractional fit, rounding ties
      AxisCal(Rat(2, 1), Rat(-7, 2), 156),    \* fitted line with a negative intercept
      AxisCal(Rat(-1, 1), Rat(156, 1), 156) } \* axis counted from the far end

\* the clamped millimetre value of mm_to_steps_X / mm_to_steps_Y
ClampMm(axis, mm) == PyMax(RatInt(0), PyMin(mm, RatInt(axis.physical_limit_mm)))

\* mutant: the linear model applied to the unclamped millimetre value
mm_to_steps_unclamped(axis, mm) ==
    RoundHalfEven(RatAdd(RatMul(axis.slope, mm), axis.intercept))

\* mutant: the clamp applied to the result of the linear model, not to its argument
mm_to_steps_clamp_after(axis, mm) ==
    RoundHalfEven(ClampMm(axis, RatAdd(RatMul(axis.slope, mm), axis.intercept)))

\* lines 13-24, the body shared by both axes
mm_to_steps(axis, mm) ==
    RoundHalfEven(RatAdd(RatMul(axis.slope, ClampMm(axis, mm)), axis.intercept))

mm_to_steps_X(mm) == mm_to_steps(cal.X, mm)
mm_to_steps_Y(mm) == mm_to_steps(cal.Y, mm)

(***************************************************************************)
(* StrokeProcessor.__init__ and _map_to_plotter_coords.                    *)
(***************************************************************************)
\* mutant: the comparison of line 33 turned round (the larger ratio is taken)
ComputeScale_larger(iw, ih, pw, ph) ==
    IF iw > 0 /\ ih > 0
    THEN IF RatLess(Rat(iw, pw), Rat(ih, ph)) THEN Rat(pw, iw) ELSE Rat(ph, ih)
    ELSE RatInt(0)

\* mutant: line 32 tests the width only
ComputeScale_width_only(iw, ih, pw, ph) ==
    IF iw > 0
    THEN IF RatLess(Rat(ih, ph), Rat(iw, pw)) THEN Rat(pw, iw) ELSE Rat(ph, ih)
    ELSE RatInt(0)

ComputeScale(iw, ih, pw, ph) ==
    IF iw > 0 /\ ih > 0
    THEN IF RatLess(Rat(ih, ph), Rat(iw, pw)) THEN Rat(pw, iw) ELSE Rat(ph, ih)
    ELSE RatInt(0)

plotter_x_mm(p) == RatMul(RatInt(p[1]), scale)
\* mutant: line 41 subtracts from the plotter width
plotter_y_mm_from_width(p) == RatSub(RatInt(plotter_w), RatMul(RatInt(p[2]), scale))

plotter_y_mm(p) == RatSub(RatInt(plotter_h), RatMul(RatInt(p[2]), scale))

map_to_plotter_coords(p) ==
    <<mm_to_steps_X(plotter_x_mm(p)), mm_to_steps_Y(plotter_y_mm(p))>>

StrokeProcessorInit ==
    /\ pc = "new"
    /\ scale' = ComputeScale(img_w, img_h, plotter_w, plotter_h)
    /\ pc' = "constructed"
    /\ UNCHANGED <<deviceVars, inputVars, mapVars, extractVars, optVars, first_run, gcode_file>>

\* one call of _map_to_plotter_coords on a pixel of the image
MapPoint ==
    /\ pc = "constructed"
    /\ \E x \in 0 .. img_w - 1, y \in 0 .. img_h - 1 :
          /\ point' = <<x, y>>
          /\ mapped' = map_to_plotter_coords(<<x, y>>)
    /\ UNCHANGED <<deviceVars, inputVars, scale, pc, extractVars, optVars, first_run, gcode_file>>

(***************************************************************************)
(* StrokeProcessor._extract_strokes.                                       *)
(***************************************************************************)
\* the (dc, dr) offsets in the order of "for dr in [-1,0,1]: for dc in [-1,0,1]"
Offsets9 ==
    << <<-1, -1>>, <<0, -1>>, <<1, -1>>,
       <<-1, 0>>,  <<0, 0>>,  <<1, 0>>,
       <<-1, 1>>,  <<0, 1>>,  <<1, 1>> >>

\* the same order with the centre skipped (lines 78-79 and 96)
Offsets8 ==
    << <<-1, -1>>, <<0, -1>>, <<1, -1>>,
       <<-1, 0>>,             <<1, 0>>,
       <<-1, 1>>,  <<0, 1>>,  <<1, 1>> >>

\* mutant: the row offset is added to both coordinates
Shift_row_twice(p, off) == <<p[1] + off[2], p[2] + off[2]>>

Shift(p, off) == <<p[1] + off[1], p[2] + off[2]>>

pixel_set == skeleton

\* np.argwhere: the foreground pixels in row-major order (by row y, then column x)
RowMajorKey(p) == p[2] * img_w + p[1]

RECURSIVE RowMajor(_)
RowMajor(S) ==
    IF S = {} THEN <<>>
    ELSE LET m == CHOOSE p \in S : \A q \in S : RowMajorKey(p) <= RowMajorKey(q)
         IN  <<m>> \o RowMajor(S \ {m})

pixels == RowMajor(skeleton)

Adjacent8(p, q) ==
    /\ p # q
    /\ p[1] - q[1] \in {-1, 0, 1}
    /\ p[2] - q[2] \in {-1, 0, 1}

\* ndimage.convolve with the kernel of line 54 and zero padding, at pixel p:
\* 10 for p itself plus 1 for each foreground 8-neighbour
neighbors(p) ==
    (IF p \in skeleton THEN 10 ELSE 0)
        + Cardinality({q \in skeleton : Adjacent8(p, q)})

Last(seq) == seq[Len(seq)]
PointsOf(seq) == {seq[i] : i \in 1 .. Len(seq)}

\* the first pixel p + offs[i], in the order of offs, that lies in S and is not
\* excl; None when there is none
FirstNeighbor(p, offs, S, excl) ==
    LET ok(i) == Shift(p, offs[i]) \in S /\ Shift(p, offs[i]) # excl
        hits == {i \in 1 .. Len(offs) : ok(i)}
    IN  IF hits = {} THEN None
        ELSE Shift(p, offs[CHOOSE i \in hits : \A j \in hits : i <= j])

\* line 68, "p_start in visited": visited holds pairs of pixels only, so a pixel
\* (a pair of integers) is never a member
StartInVisited(p) == FALSE

\* line 73: the pixels whose traces are started in phase 1
IsTraceStart(p) == neighbors(p) # 12 /\ neighbors(p) # 11

\* mutant: the sweep is given only the pixels with two neighbours ("closed loops")
RemainingAfterPhase1_loops_only(strks) ==
    {p \in pixel_set : neighbors(p) = 12}
        \ UNION {PointsOf(strks[i]) : i \in 1 .. Len(strks)}

\* mutant: the sweep is given only the pixels that have a neighbour
RemainingAfterPhase1_with_neighbour(strks) ==
    {p \in pixel_set : neighbors(p) > 10}
        \ UNION {PointsOf(strks[i]) : i \in 1 .. Len(strks)}

\* line 109
RemainingAfterPhase1(strks) ==
    pixel_set \ UNION {PointsOf(strks[i]) : i \in 1 .. Len(strks)}

\* lines 50-64
ExtractBegin ==
    /\ pc = "constructed"
    /\ IF skeleton = {}
       THEN /\ extracted' = <<>>
            /\ pc' = "extracted"
            /\ UNCHANGED <<strokes, visited, p_idx>>
       ELSE /\ strokes' = <<>>
            /\ visited' = {}
            /\ p_idx' = 1
            /\ pc' = "phase1"
            /\ UNCHANGED extracted
    /\ UNCHANGED <<deviceVars, inputVars, scale, mapVars, dir, path, remaining_pixels,
                   optVars, first_run, gcode_file>>

\* lines 66-73: one iteration of "for p_start in pixels" up to the direction loop
NextPixel ==
    /\ pc = "phase1"
    /\ p_idx <= Len(pixels)
    /\ \E p_start \in {pixels[p_idx]} :
          IF ~StartInVisited(p_start) /\ IsTraceStart(p_start)
          THEN /\ dir' = 1
               /\ pc' = "dirs"
               /\ UNCHANGED p_idx
          ELSE /\ p_idx' = p_idx + 1
               /\ UNCHANGED <<dir, pc>>
    /\ UNCHANGED <<deviceVars, inputVars, scale, mapVars, strokes, visited, path,
                   remaining_pixels, extracted, optVars, first_run, gcode_file>>

\* mutant: the test "(p_start, p_curr) in visited" of line 83 is left out
NextDir_unchecked ==
    /\ pc = "dirs"
    /\ \E p_start \in {pixels[p_idx]} :
           IF dir > Len(Offsets8)
           THEN /\ p_idx' = p_idx + 1
                /\ pc' = "phase1"
                /\ UNCHANGED <<dir, path, visited>>
           ELSE \E p_curr \in {Shift(p_start, Offsets8[dir])} :
                    IF p_curr \notin pixel_set
                    THEN /\ dir' = dir + 1
                         /\ UNCHANGED <<p_idx, pc, path, visited>>
                    ELSE /\ path' = <<p_start, p_curr>>
                         /\ visited' = visited \cup {<<p_start, p_curr>>, <<p_curr, p_start>>}
                         /\ pc' = "extend"
                         /\ UNCHANGED <<p_idx, dir>>
    /\ UNCHANGED <<deviceVars, inputVars, scale, mapVars, strokes, remaining_pixels,
                   extracted, optVars, first_run, gcode_file>>

\* lines 76-88: one iteration of the direction loops of the current p_start
NextDir ==
    /\ pc = "dirs"
    /\ \E p_start \in {pixels[p_idx]} :
           IF dir > Len(Offsets8)
           THEN /\ p_idx' = p_idx + 1
                /\ pc' = "phase1"
                /\ UNCHANGED <<dir, path, visited>>
           ELSE \E p_curr \in {Shift(p_start, Offsets8[dir])} :
                    IF p_curr \notin pixel_set \/ <<p_start, p_curr>> \in visited
                    THEN /\ dir' = dir + 1
                         /\ UNCHANGED <<p_idx, pc, path, visited>>
                    ELSE /\ path' = <<p_start, p_curr>>
                         /\ visited' = visited \cup {<<p_start, p_curr>>, <<p_curr, p_start>>}
                         /\ pc' = "extend"
                         /\ UNCHANGED <<p_idx, dir>>
    /\ UNCHANGED <<deviceVars, inputVars, scale, mapVars, strokes, remaining_pixels,
                   extracted, optVars, first_run, gcode_file>>

\* lines 90-106: one test of the while condition, with its body or the loop exit
Extend ==
    /\ pc = "extend"
    /\ LET p_last == Last(path)
           p_prev == path[Len(path) - 1]
           p_next == FirstNeighbor(p_last, Offsets8, pixel_set, p_prev)
       IN  IF neighbors(p_last) = 12 /\ p_next # None
           THEN /\ path' = Append(path, p_next)
                /\ visited' = visited \cup {<<p_last, p_next>>, <<p_next, p_last>>}
                /\ UNCHANGED <<strokes, dir, pc>>
           ELSE /\ strokes' = Append(strokes, path)
                /\ dir' = dir + 1
                /\ pc' = "dirs"
                /\ UNCHANGED <<path, visited>>
    /\ UNCHANGED <<deviceVars, inputVars, scale, mapVars, p_idx, remaining_pixels,
                   extracted, optVars, first_run, gcode_file>>

\* line 109, when the loop over pixels is exhausted
BeginSweep ==
    /\ pc = "phase1"
    /\ p_idx > Len(pixels)
    /\ remaining_pixels' = RemainingAfterPhase1(strokes)
    /\ pc' = "phase2"
    /\ UNCHANGED <<deviceVars, inputVars, scale, mapVars, strokes, visited, p_idx, dir,
                   path, extracted, optVars, first_run, gcode_file>>

\* the pixels set.pop() may return: Python leaves the choice open ("an arbitrary
\* element")
PopChoices(S) == S

\* lines 110-113: remaining_pixels.pop() starts a trace
SweepPop ==
    /\ pc = "phase2"
    /\ remaining_pixels # {}
    /\ \E p_start \in PopChoices(remaining_pixels) :
          /\ remaining_pixels' = remaining_pixels \ {p_start}
          /\ path' = <<p_start>>
    /\ pc' = "sweep"
    /\ UNCHANGED <<deviceVars, inputVars, scale, mapVars, strokes, visited, p_idx, dir,
                   extracted, optVars, first_run, gcode_file>>

\* mutant: without the "if not found_next: break" of lines 126-127 the loop
\* "while True" goes on when no neighbour is left
SweepStep_no_break ==
    /\ pc = "sweep"
    /\ LET p_next == FirstNeighbor(Last(path), Offsets9, remaining_pixels, None)
       IN  IF p_next # None
           THEN /\ path' = Append(path, p_next)
                /\ remaining_pixels' = remaining_pixels \ {p_next}
           ELSE UNCHANGED <<path, remaining_pixels>>
    /\ UNCHANGED <<deviceVars, inputVars, scale, mapVars, strokes, pc, visited, p_idx, dir, extracted,
                   optVars, first_run, gcode_file>>

\* lines 114-128: one iteration of "while True", or its exit
SweepStep ==
    /\ pc = "sweep"
    /\ LET p_next == FirstNeighbor(Last(path), Offsets9, remaining_pixels, None)
       IN  IF p_next # None
           THEN /\ path' = Append(path, p_next)
                /\ remaining_pixels' = remaining_pixels \ {p_next}
                /\ UNCHANGED <<strokes, pc>>
           ELSE /\ strokes' = Append(strokes, path)
                /\ pc' = "phase2"
                /\ UNCHANGED <<path, remaining_pixels>>
    /\ UNCHANGED <<deviceVars, inputVars, scale, mapVars, visited, p_idx, dir, extracted,
                   optVars, first_run, gcode_file>>

\* line 130
ExtractReturn ==
    /\ pc = "phase2"
    /\ remaining_pixels = {}
    /\ extracted' = strokes
    /\ pc' = "extracted"
    /\ UNCHANGED <<deviceVars, inputVars, scale, mapVars, strokes, visited, p_idx, dir,
                   path, remaining_pixels, optVars, first_run, gcode_file>>

(***************************************************************************)
(* StrokeProcessor._optimize_and_convert_to_gcode.  A G-code line is a     *)
(* tuple: the two pen commands, <<"G0", x, y>> for f"G0 X{x} Y{y}" and     *)
(* <<"G1", x, y>> for f"G1 X{x} Y{y}".  remaining_strokes holds indices    *)
(* into strokes: list(strokes) copies references, so best_stroke.reverse() *)
(* reverses the element of strokes itself.                                 *)
(***************************************************************************)
PEN_UP_COMMAND == <<"G0 Z100.0">>
PEN_DOWN_COMMAND == <<"G0 Z0.0">>
TravelTo(pos) == <<"G0", pos[1], pos[2]>>
DrawTo(pos) == <<"G1", pos[1], pos[2]>>

\* np.hypot(a[0] - b[0], a[1] - b[1]) squared; on step values of this size two
\* hypot results compare as their squares do
Dist2(a, b) == (a[1] - b[1]) * (a[1] - b[1]) + (a[2] - b[2]) * (a[2] - b[2])

Reverse(seq) == [i \in 1 .. Len(seq) |-> seq[Len(seq) + 1 - i]]
\* mutant: pop(0) for pop(best_stroke_idx) in line 167
RemoveAt_first(seq, k) == [i \in 1 .. Len(seq) - 1 |-> seq[i + 1]]

RemoveAt(seq, k) == [i \in 1 .. Len(seq) - 1 |-> IF i < k THEN seq[i] ELSE seq[i + 1]]

\* float('inf') for min_dist
Inf == -1
\* mutant: "<=" for "<" in lines 158 and 162 (a later stroke wins a tie)
LessOrEqualMin(d2, min2) == min2 = Inf \/ d2 <= min2

\* "dist < min_dist" of lines 158 and 162
LessThanMin(d2, min2) == min2 = Inf \/ d2 < min2

\* lines 147-164: the scan of remaining_strokes from position i on; st is
\* <<best_stroke_idx, min_dist squared>> as they are before position i, and the
\* result is the final best_stroke_idx (1-based; 0 stands for the initial -1)
RECURSIVE ScanBest(_, _, _, _, _)
ScanBest(strks, rem, cur, i, st) ==
    IF i > Len(rem) THEN st[1]
    ELSE LET stroke == strks[rem[i]]
             d_start == Dist2(map_to_plotter_coords(stroke[1]), cur)
             d_end == Dist2(map_to_plotter_coords(Last(stroke)), cur)
             st1 == IF LessThanMin(d_start, st[2]) THEN <<i, d_start>> ELSE st
             st2 == IF LessThanMin(d_end, st1[2]) THEN <<i, d_end>> ELSE st1
         IN  ScanBest(strks, rem, cur, i + 1, st2)

\* mutant: no scan, the last stroke of the list is taken (pop(-1))
BestStrokeIdx_last(strks, rem, cur) == Len(rem)

BestStrokeIdx(strks, rem, cur) == ScanBest(strks, rem, cur, 1, <<0, Inf>>)

\* mutant: "<=" for "<" in line 172 (a stroke whose ends tie is reversed)
ShouldReverse_on_tie(stroke, cur) ==
    Dist2(map_to_plotter_coords(Last(stroke)), cur)
        <= Dist2(map_to_plotter_coords(stroke[1]), cur)

\* line 172: draw the stroke in reverse
ShouldReverse(stroke, cur) ==
    Dist2(map_to_plotter_coords(Last(stroke)), cur)
        < Dist2(map_to_plotter_coords(stroke[1]), cur)

\* mutant: the G1 loop of lines 182-183 starts at the second point
StrokeBlock_skip_first(stroke) ==
    <<PEN_UP_COMMAND, TravelTo(map_to_plotter_coords(stroke[1])), PEN_DOWN_COMMAND>>
        \o [i \in 1 .. Len(stroke) - 1 |-> DrawTo(map_to_plotter_coords(stroke[i + 1]))]

\* mutant: line 177 (the pen-up command before the travel move) is left out
StrokeBlock_no_pen_up(stroke) ==
    <<TravelTo(map_to_plotter_coords(stroke[1])), PEN_DOWN_COMMAND>>
        \o [i \in 1 .. Len(stroke) |-> DrawTo(map_to_plotter_coords(stroke[i]))]

\* lines 177-183: the lines appended for one stroke in its final orientation
StrokeBlock(stroke) ==
    <<PEN_UP_COMMAND, TravelTo(map_to_plotter_coords(stroke[1])), PEN_DOWN_COMMAND>>
        \o [i \in 1 .. Len(stroke) |-> DrawTo(map_to_plotter_coords(stroke[i]))]

\* mutant: no early return at line 137, and the list starts with the pen raised
OptimizeBegin_pen_up ==
    /\ pc = "extracted"
    /\ gcode_lines' = <<PEN_UP_COMMAND>>
    /\ current_pos' = <<0, 0>>
    /\ remaining_strokes' = [i \in 1 .. Len(strokes) |-> i]
    /\ pc' = "optimize"
    /\ UNCHANGED <<deviceVars, inputVars, scale, mapVars, extractVars, first_run, gcode_file>>

\* lines 137-143
OptimizeBegin ==
    /\ pc = "extracted"
    /\ gcode_lines' = <<>>
    /\ IF strokes = <<>>
       THEN /\ pc' = "done"
            /\ UNCHANGED <<current_pos, remaining_strokes>>
       ELSE /\ current_pos' = <<0, 0>>
            /\ remaining_strokes' = [i \in 1 .. Len(strokes) |-> i]
            /\ pc' = "optimize"
    /\ UNCHANGED <<deviceVars, inputVars, scale, mapVars, extractVars, first_run, gcode_file>>

\* lines 145-186: one iteration of "while remaining_strokes" (each local is bound
\* to its one value)
OptimizeStep ==
    /\ pc = "optimize"
    /\ remaining_strokes # <<>>
    /\ \E best_stroke_idx \in {BestStrokeIdx(strokes, remaining_strokes, current_pos)} :
       \E ref \in {remaining_strokes[best_stroke_idx]} :
       \E best_stroke \in {IF ShouldReverse(strokes[ref], current_pos)
                           THEN Reverse(strokes[ref])
                           ELSE strokes[ref]} :
           /\ remaining_strokes' = RemoveAt(remaining_strokes, best_stroke_idx)
           /\ strokes' = [strokes EXCEPT ![ref] = best_stroke]
           /\ gcode_lines' = gcode_lines \o StrokeBlock(best_stroke)
           /\ current_pos' = map_to_plotter_coords(Last(best_stroke))
    /\ UNCHANGED <<deviceVars, inputVars, scale, pc, mapVars, visited, p_idx, dir, path,
                   remaining_pixels, extracted, first_run, gcode_file>>

\* line 188
OptimizeReturn ==
    /\ pc = "optimize"
    /\ remaining_strokes = <<>>
    /\ pc' = "done"
    /\ UNCHANGED <<deviceVars, inputVars, scale, mapVars, extractVars, optVars, first_run, gcode_file>>

(***************************************************************************)
(* Image2GcodeApp.save_gcode.  The file is the sequence of its non-blank   *)
(* lines: a comment line is <<";", text>> (the source line and the         *)
(* settings line without their values), a command line is a tuple as in    *)
(* gcode_lines, "G21 ; ..." is <<"G21">>, "G90 ; ..." is <<"G90">>,        *)
(* "G0 X0 Y0 ; Return to origin" is <<"G0", 0, 0>> and "M84 ; ..." is      *)
(* <<"M84">>.  processed_skeleton is the mask of Init; a processed_skeleton*)
(* of None takes the branch of the mask without foreground.  Writing the   *)
(* file does not fail.                                                     *)
(***************************************************************************)
Comment(text) == <<";", text>>

\* lines 484-491
FileHeader ==
    << Comment("G-code generated by Image2Gcode App"),
       Comment("Source, Date"),
       Comment("Settings"),
       Comment("NOTE: Coordinates are in STEPS, not millimeters (calibrated for this plotter)"),
       <<"G21">>,
       <<"G90">>,
       PEN_UP_COMMAND,
       Comment("--- Start Drawing ---") >>

\* mutant: the pen is not raised before the return to the origin
FileTrailer_pen_down ==
    << Comment("--- End Drawing ---"),
       TravelTo(<<0, 0>>),
       <<"M84">> >>

\* lines 495-499
FileTrailer ==
    << Comment("--- End Drawing ---"),
       PEN_UP_COMMAND,
       TravelTo(<<0, 0>>),
       <<"M84">> >>

\* lines 483-499
FileLines(lines) == FileHeader \o lines \o FileTrailer

\* lines 448-454: nothing to draw, a warning is shown and nothing is written
SaveGcodeCheck ==
    /\ pc = "save_gcode"
    /\ pc' = IF skeleton = {} THEN "warned" ELSE "ask_path"
    /\ UNCHANGED <<deviceVars, inputVars, scale, mapVars, extractVars, optVars, first_run, gcode_file>>

\* lines 456-469: the file dialog returns a path or nothing
SaveGcodeAskPath ==
    /\ pc = "ask_path"
    /\ \E save_path \in {"", "drawing.gcode"} :
          pc' = IF save_path = "" THEN "cancelled" ELSE "new"
    /\ UNCHANGED <<deviceVars, inputVars, scale, mapVars, extractVars, optVars, first_run, gcode_file>>

\* lines 483-499: the file is written from the list convert() returned
SaveGcodeWrite ==
    /\ pc = "done"
    /\ gcode_file' = FileLines(gcode_lines)
    /\ pc' = "saved"
    /\ UNCHANGED <<deviceVars, inputVars, scale, mapVars, extractVars, optVars, first_run>>

(***************************************************************************)
(* GcodeSenderApp (gcode_sender.py) after a successful                     *)
(* _connect_to_plotter.  Two threads run: the Tk main loop, which executes *)
(* one handler at a time, and the worker thread of a job.  A handler that  *)
(* talks to the port (Test Connection, Home, manual command) keeps the     *)
(* main loop busy over several steps while the worker goes on.  A line is  *)
(* a tuple as in the file of save_gcode, a blank line is <<>>.  The device *)
(* answers the commands it received in order, each with one line, at any   *)
(* later moment; a time-out of a reader may elapse at any moment.  The     *)
(* device keeps at most DeviceBuffer unanswered commands and loses what    *)
(* arrives beyond that.                                                    *)
(***************************************************************************)
Threads == 1 .. MaxThreads

\* the lines a loaded file is made of
LineValues == {<<>>, Comment("--- Start Drawing ---"), DrawTo(<<1, 1>>)}
RawFiles == UNION {[1 .. n -> LineValues] : n \in 0 .. MaxFileLines}

\* the lines the device sends: the acknowledgement, another answer, a blank line
Responses == {"OK", "error", ""}

\* what the user types into manual_entry
ManualCommands == {"G91"}

\* line 180: [line.strip() for line in f if line.strip()]
StripBlank(raw) == SelectSeq(raw, LAMBDA line : line # <<>>)

\* line 480: line.startswith(';')
IsCommentLine(line) == line[1] = ";"

\* an operation on self.ser (or a stop request) as recorded in trace
Entry(by, op, i, line, response) ==
    [by |-> by, op |-> op, i |-> i, line |-> line, response |-> response]

NoThread == [at |-> "none", i |-> 0, response |-> ""]
UiIdle == [handler |-> "none", at |-> "idle"]

\* a thread between its start and the end of _send_gcode_worker
Active(t) == worker[t].at \notin {"none", "ended"}

\* lines 27-31, 61-103 and 141-163
SenderIdle ==
    /\ sender_lines = <<>>
    /\ is_sending = FALSE
    /\ widget = [load_button |-> "normal", send_button |-> "disabled",
                 stop_button |-> "disabled", home_button |-> "normal",
                 test_button |-> "normal", manual_entry |-> "normal"]
    /\ manual_text = ""
    /\ status_var = "Connected"
    /\ ui = UiIdle
    /\ worker = [t \in Threads |-> NoThread]
    /\ finalize_pending = 0
    /\ trace = <<>>
    /\ ser_in = <<>>
    /\ dev_pending = 0

\* the device receives a command
Received(n) == IF n < DeviceBuffer THEN n + 1 ELSE n

\* load_file, lines 170-198: the dialog returned a readable file
LoadFile ==
    /\ ui = UiIdle
    /\ widget.load_button = "normal"
    /\ \E raw \in RawFiles : sender_lines' = StripBlank(raw)
    /\ status_var' = "Ready to send"
    /\ widget' = [widget EXCEPT !.send_button = "normal"]
    /\ trace' = <<>>
    /\ UNCHANGED <<is_sending, manual_text, ui, worker, finalize_pending,
                   ser_in, dev_pending>>
    /\ UNCHANGED <<convertVars, collectorVars>>

\* the user types into manual_entry (lines 99-100): a disabled entry takes no input
TypeManual ==
    /\ ui = UiIdle
    /\ widget.manual_entry = "normal"
    /\ \E command \in ManualCommands :
          /\ manual_text # command
          /\ manual_text' = command
    /\ UNCHANGED <<sender_lines, is_sending, widget, status_var, ui, worker,
                   finalize_pending, trace, ser_in, dev_pending>>
    /\ UNCHANGED <<convertVars, collectorVars>>

\* start_sending, lines 343-364 (reached by send_button only)
StartSending ==
    /\ ui = UiIdle
    /\ widget.send_button = "normal"
    /\ sender_lines # <<>>
    /\ ~is_sending
    /\ \E t \in Threads :
          /\ ~Active(t)
          /\ \A u \in Threads : u < t => Active(u)
          /\ worker' = [worker EXCEPT ![t] = [at |-> "loop", i |-> 1, response |-> ""]]
    /\ is_sending' = TRUE
    /\ widget' = [widget EXCEPT !.load_button = "disabled", !.send_button = "disabled",
                                !.stop_button = "normal", !.home_button = "disabled",
                                !.test_button = "disabled", !.manual_entry = "disabled"]
    /\ trace' = <<>>
    /\ UNCHANGED <<sender_lines, manual_text, status_var, ui, finalize_pending,
                   ser_in, dev_pending>>
    /\ UNCHANGED <<convertVars, collectorVars>>

\* stop_sending, lines 366-371 (reached by stop_button only)
StopSending ==
    /\ ui = UiIdle
    /\ widget.stop_button = "normal"
    /\ is_sending
    /\ is_sending' = FALSE
    /\ status_var' = "Sending stopped by user"
    /\ trace' = Append(trace, Entry("ui", "stop_sending", 0, <<>>, ""))
    /\ UNCHANGED <<sender_lines, widget, manual_text, ui, worker, finalize_pending,
                   ser_in, dev_pending>>
    /\ UNCHANGED <<convertVars, collectorVars>>

\* the thread leaves the loop: lines 570-572
Leave(t, status) ==
    /\ worker' = [worker EXCEPT ![t].at = "finally"]
    /\ status_var' = status

\* mutant: the loop does not test is_sending
WorkerLoop_ignore_stop(t) ==
    /\ worker[t].at = "loop"
    /\ \E i \in {worker[t].i} :
          IF i > Len(sender_lines)
          THEN Leave(t, status_var)
          ELSE IF IsCommentLine(sender_lines[i])
               THEN /\ worker' = [worker EXCEPT ![t].i = i + 1]
                    /\ UNCHANGED status_var
               ELSE /\ worker' = [worker EXCEPT ![t].at = "flushInput"]
                    /\ status_var' = "Sending"
    /\ UNCHANGED <<sender_lines, is_sending, widget, manual_text, ui,
                   finalize_pending, trace, ser_in, dev_pending>>
    /\ UNCHANGED <<convertVars, collectorVars>>

\* lines 475-492: the test of the flag, the skip of a comment line, the status
WorkerLoop(t) ==
    /\ worker[t].at = "loop"
    /\ \E i \in {worker[t].i} :
          IF i > Len(sender_lines) \/ ~is_sending
          THEN Leave(t, status_var)
          ELSE IF IsCommentLine(sender_lines[i])
               THEN /\ worker' = [worker EXCEPT ![t].i = i + 1]
                    /\ UNCHANGED status_var
               ELSE /\ worker' = [worker EXCEPT ![t].at = "flushInput"]
                    /\ status_var' = "Sending"
    /\ UNCHANGED <<sender_lines, is_sending, widget, manual_text, ui,
                   finalize_pending, trace, ser_in, dev_pending>>
    /\ UNCHANGED <<convertVars, collectorVars>>

\* line 499
WorkerFlushInput(t) ==
    /\ worker[t].at = "flushInput"
    /\ ser_in' = <<>>
    /\ worker' = [worker EXCEPT ![t].at = "write"]
    /\ UNCHANGED <<sender_lines, is_sending, widget, manual_text, status_var, ui,
                   finalize_pending, trace, dev_pending>>
    /\ UNCHANGED <<convertVars, collectorVars>>

\* lines 502-503
WorkerWrite(t) ==
    /\ worker[t].at = "write"
    /\ trace' = Append(trace, Entry("worker", "write", worker[t].i,
                                    sender_lines[worker[t].i], ""))
    /\ dev_pending' = Received(dev_pending)
    /\ worker' = [worker EXCEPT ![t].at = "wait", ![t].response = ""]
    /\ UNCHANGED <<sender_lines, is_sending, widget, manual_text, status_var, ui,
                   finalize_pending, ser_in>>
    /\ UNCHANGED <<convertVars, collectorVars>>

\* lines 564-565: the port raises serial.SerialException on the write
WorkerSerialException(t) ==
    /\ worker[t].at = "write"
    /\ Leave(t, "Serial Error")
    /\ trace' = Append(trace, Entry("worker", "SerialException", worker[t].i, <<>>, ""))
    /\ UNCHANGED <<sender_lines, is_sending, widget, manual_text, ui,
                   finalize_pending, ser_in, dev_pending>>
    /\ UNCHANGED <<convertVars, collectorVars>>

\* mutant: an answer other than "OK" is taken for the acknowledgement
Answered_any(t, response) ==
    /\ worker' = [worker EXCEPT ![t].at = "loop", ![t].i = worker[t].i + 1,
                                ![t].response = response]
    /\ UNCHANGED status_var

\* lines 544-562: the answer is the acknowledgement or the job is aborted
Answered(t, response) ==
    IF response = "OK"
    THEN /\ worker' = [worker EXCEPT ![t].at = "loop", ![t].i = worker[t].i + 1,
                                     ![t].response = response]
         /\ UNCHANGED status_var
    ELSE /\ worker' = [worker EXCEPT ![t].at = "finally", ![t].response = response]
         /\ status_var' = "Unexpected response"

\* lines 531-541 and 552-562: a line is read; a blank line is waited over
WorkerRead(t) ==
    /\ worker[t].at = "wait"
    /\ ser_in # <<>>
    /\ \E response \in {Head(ser_in)} :
          IF response = ""
          THEN UNCHANGED <<worker, status_var, trace>>
          ELSE /\ trace' = Append(trace, Entry("worker", "response", worker[t].i, <<>>, response))
               /\ Answered(t, response)
    /\ ser_in' = Tail(ser_in)
    /\ UNCHANGED <<sender_lines, is_sending, widget, manual_text, ui,
                   finalize_pending, dev_pending>>
    /\ UNCHANGED <<convertVars, collectorVars>>

\* mutant: after a time-out the worker goes on with the next line
WorkerTimeout_continue(t) ==
    /\ worker[t].at = "wait"
    /\ worker' = [worker EXCEPT ![t].at = "loop", ![t].i = worker[t].i + 1]
    /\ trace' = Append(trace, Entry("worker", "response", worker[t].i, <<>>, ""))
    /\ UNCHANGED <<sender_lines, is_sending, widget, manual_text, status_var, ui,
                   finalize_pending, ser_in, dev_pending>>
    /\ UNCHANGED <<convertVars, collectorVars>>

\* lines 523 and 547-551: the time-out elapsed without a non-empty line
WorkerTimeout(t) ==
    /\ worker[t].at = "wait"
    /\ Leave(t, "No response from plotter")
    /\ trace' = Append(trace, Entry("worker", "response", worker[t].i, <<>>, ""))
    /\ UNCHANGED <<sender_lines, is_sending, widget, manual_text, ui,
                   finalize_pending, ser_in, dev_pending>>
    /\ UNCHANGED <<convertVars, collectorVars>>

\* lines 570-572: the callback is queued and the thread ends
WorkerFinally(t) ==
    /\ worker[t].at = "finally"
    /\ finalize_pending' = finalize_pending + 1
    /\ worker' = [worker EXCEPT ![t] = [at |-> "ended", i |-> 0, response |-> ""]]
    /\ UNCHANGED <<sender_lines, is_sending, widget, manual_text, status_var, ui,
                   trace, ser_in, dev_pending>>
    /\ UNCHANGED <<convertVars, collectorVars>>

\* _finalize_sending, lines 601-612
FinalizeSending ==
    /\ ui = UiIdle
    /\ finalize_pending > 0
    /\ finalize_pending' = finalize_pending - 1
    /\ status_var' = IF is_sending THEN "Successfully sent" ELSE status_var
    /\ is_sending' = FALSE
    /\ widget' = [widget EXCEPT !.load_button = "normal",
                                !.send_button = IF sender_lines # <<>> THEN "normal"
                                                ELSE "disabled",
                                !.stop_button = "disabled", !.home_button = "normal",
                                !.test_button = "normal", !.manual_entry = "normal"]
    /\ UNCHANGED <<sender_lines, manual_text, ui, worker, trace, ser_in, dev_pending>>
    /\ UNCHANGED <<convertVars, collectorVars>>

Handlers == {"test_connection", "send_manual_command", "send_home_command"}

\* lines 206, 251 and 309
HandlerCommand(handler) ==
    CASE handler = "test_connection" -> <<"G90">>
      [] handler = "send_home_command" -> <<"G28">>
      [] handler = "send_manual_command" -> <<manual_text>>

\* the handler can be started from the window and passes its own tests: the
\* buttons of lines 83 and 86 when they are enabled, the "Send" button of line
\* 103 always (no attribute holds it and nothing disables it)
HandlerStarts(handler) ==
    CASE handler = "test_connection" -> widget.test_button = "normal"
      [] handler = "send_home_command" -> widget.home_button = "normal" /\ ~is_sending
      [] handler = "send_manual_command" -> manual_text # ""

\* the commands the handlers have sent since the job began
UiWrites == {n \in 1 .. Len(trace) : trace[n].by \in Handlers /\ trace[n].op = "flushInput"}

\* lines 208-211, 256-259 and 303-306: the tests, the status, flushInput
HandlerFlushInput(handler) ==
    /\ ui = UiIdle
    /\ HandlerStarts(handler)
    /\ Cardinality(UiWrites) < MaxUiCommands
    /\ status_var' = "Handler result"
    /\ ser_in' = <<>>
    /\ trace' = Append(trace, Entry(handler, "flushInput", 0, <<>>, ""))
    /\ ui' = [handler |-> handler, at |-> "write"]
    /\ UNCHANGED <<sender_lines, is_sending, widget, manual_text, worker,
                   finalize_pending, dev_pending>>
    /\ UNCHANGED <<convertVars, collectorVars>>

\* lines 214-215, 262-263 and 310-311
HandlerWrite ==
    /\ ui.at = "write"
    /\ trace' = Append(trace, Entry(ui.handler, "write", 0, HandlerCommand(ui.handler), ""))
    /\ dev_pending' = Received(dev_pending)
    /\ ui' = [ui EXCEPT !.at = "wait"]
    /\ UNCHANGED <<sender_lines, is_sending, widget, manual_text, status_var, worker,
                   finalize_pending, ser_in>>
    /\ UNCHANGED <<convertVars, collectorVars>>

\* lines 232-239, 279-287 and 329-336: the result is shown, the handler returns;
\* delete() has no effect on a disabled entry
HandlerReturn(response) ==
    /\ ui' = UiIdle
    /\ status_var' = "Handler result"
    /\ manual_text' = IF ui.handler = "send_manual_command" /\ widget.manual_entry = "normal"
                      THEN "" ELSE manual_text

\* lines 221-228, 269-276 and 319-326
HandlerRead ==
    /\ ui.at = "wait"
    /\ ser_in # <<>>
    /\ \E response \in {Head(ser_in)} :
          /\ IF response = ""
             THEN UNCHANGED <<ui, status_var, manual_text>>
             ELSE HandlerReturn(response)
    /\ ser_in' = Tail(ser_in)
    /\ UNCHANGED <<sender_lines, is_sending, widget, worker, finalize_pending, trace,
                   dev_pending>>
    /\ UNCHANGED <<convertVars, collectorVars>>

\* lines 220, 268 and 318: the time-out of the handler elapsed
HandlerTimeout ==
    /\ ui.at = "wait"
    /\ HandlerReturn("")
    /\ UNCHANGED <<sender_lines, is_sending, widget, worker, finalize_pending, trace,
                   ser_in, dev_pending>>
    /\ UNCHANGED <<convertVars, collectorVars>>

\* the device answers the oldest command it holds
DeviceRespond ==
    /\ dev_pending > 0
    /\ dev_pending' = dev_pending - 1
    /\ \E response \in Responses : ser_in' = Append(ser_in, response)
    /\ UNCHANGED <<sender_lines, is_sending, widget, manual_text, status_var, ui,
                   worker, finalize_pending, trace>>
    /\ UNCHANGED <<convertVars, collectorVars>>

(***************************************************************************)
(* CalibrationApp (calibration/extract_points.py): the tracked position.   *)
(* send_command returns the line readline() gave, stripped: the            *)
(* acknowledgement, another answer, or "" after the time-out of the port.  *)
(***************************************************************************)
Axes == {"X", "Y", "Z"}

\* the steps of a move: step_size.get() of the forward buttons, its negative of
\* the backward buttons (lines 62-63 and 87-88); here 100 forward and 250 backward
StepValues == {100, -250}

\* what send_command returns (lines 149-153)
MoveResponses == {"OK", "ok", ""}

\* line 33
CollectorIdle ==
    /\ current_steps = [axis \in Axes |-> 0]
    /\ moves = <<>>

Event(op, axis, steps, response) ==
    [op |-> op, axis |-> axis, steps |-> steps, response |-> response]

\* mutant: any answer counts as the acknowledgement
Acknowledged_any(response) == response # ""

\* line 158
Acknowledged(response) == response = "OK"

\* move_motor, lines 155-165, called by the buttons of lines 87-88
MoveMotor ==
    /\ Len(moves) < MaxEvents
    /\ \E axis \in Axes, steps \in StepValues, response \in MoveResponses :
          /\ current_steps' = IF Acknowledged(response)
                              THEN [current_steps EXCEPT ![axis] = @ + steps]
                              ELSE current_steps
          /\ moves' = Append(moves, Event("move_motor", axis, steps, response))
    /\ UNCHANGED <<convertVars, senderVars>>

\* reset_positions, lines 194-202
ResetPositions ==
    /\ Len(moves) < MaxEvents
    /\ current_steps' = [axis \in Axes |-> 0]
    /\ moves' = Append(moves, Event("reset_positions", "X", 0, ""))
    /\ UNCHANGED <<convertVars, senderVars>>

(***************************************************************************)
(* Initial states.                                                         *)
(***************************************************************************)
LocalsAt(start) ==
    /\ scale = RatInt(0)
    /\ pc = start
    /\ point = None
    /\ mapped = None
    /\ strokes = <<>>
    /\ visited = {}
    /\ p_idx = 0
    /\ dir = 0
    /\ path = <<>>
    /\ remaining_pixels = {}
    /\ extracted = <<>>
    /\ remaining_strokes = <<>>
    /\ current_pos = <<0, 0>>
    /\ gcode_lines = <<>>
    /\ first_run = <<>>
    /\ gcode_file = None
    /\ SenderIdle
    /\ CollectorIdle

InitLocals == LocalsAt("new")

\* device sizes of the mapping specification: the application's and Scenario A's
PlotterDims == {100, 156}

InitMap ==
    /\ img_w \in 0 .. MaxMapDim
    /\ img_h \in 0 .. MaxMapDim
    /\ skeleton = {}
    /\ plotter_w \in PlotterDims
    /\ plotter_h \in PlotterDims
    /\ cal \in [X : AxisCalibrations, Y : AxisCalibrations]
    /\ InitLocals

NextMap == StrokeProcessorInit \/ MapPoint

SpecMap == InitMap /\ [][NextMap]_vars

\* the calibration of the conversion pipeline
PipelineCalibrations ==
    { [X |-> AxisCal(Rat(1, 1), Rat(0, 1), 156), Y |-> AxisCal(Rat(1, 1), Rat(0, 1), 156)] }

Grid(w, h) == (0 .. w - 1) \X (0 .. h - 1)

Init ==
    /\ img_w \in 0 .. MaxW
    /\ img_h \in 0 .. MaxH
    /\ skeleton \in {S \in SUBSET Grid(img_w, img_h) : Cardinality(S) <= MaxFg}
    /\ plotter_w = PLOTTER_PHYSICAL_LIMIT_X_MM
    /\ plotter_h = PLOTTER_PHYSICAL_LIMIT_Y_MM
    /\ cal \in PipelineCalibrations
    /\ InitLocals

Extract ==
    \/ ExtractBegin
    \/ NextPixel
    \/ NextDir
    \/ Extend
    \/ BeginSweep
    \/ SweepPop
    \/ SweepStep
    \/ ExtractReturn

Optimize == OptimizeBegin \/ OptimizeStep \/ OptimizeReturn

\* StrokeProcessor(...).convert()
Next == StrokeProcessorInit \/ Extract \/ Optimize

Spec == Init /\ [][Next]_vars

\* the state in which save_gcode is called
InitApp ==
    /\ img_w \in 0 .. MaxW
    /\ img_h \in 0 .. MaxH
    /\ skeleton \in {S \in SUBSET Grid(img_w, img_h) : Cardinality(S) <= MaxFg}
    /\ plotter_w = PLOTTER_PHYSICAL_LIMIT_X_MM
    /\ plotter_h = PLOTTER_PHYSICAL_LIMIT_Y_MM
    /\ cal \in PipelineCalibrations
    /\ LocalsAt("save_gcode")

\* save_gcode: the checks, the conversion and the file
NextApp ==
    \/ SaveGcodeCheck
    \/ SaveGcodeAskPath
    \/ StrokeProcessorInit
    \/ Extract
    \/ Optimize
    \/ SaveGcodeWrite

SpecApp == InitApp /\ [][NextApp]_vars

\* StrokeProcessor(...) and _extract_strokes() of a running interpreter: a
\* statement that can be executed is executed
NextExtract == StrokeProcessorInit \/ Extract

SpecExtractFair == Init /\ [][NextExtract]_vars /\ WF_vars(NextExtract)

\* a second call of _extract_strokes on the same processor: the first result is
\* kept and the locals of the call start afresh
ExtractAgain ==
    /\ pc = "extracted"
    /\ first_run = <<>>
    /\ first_run' = <<extracted>>
    /\ pc' = "constructed"
    /\ strokes' = <<>>
    /\ visited' = {}
    /\ p_idx' = 0
    /\ dir' = 0
    /\ path' = <<>>
    /\ remaining_pixels' = {}
    /\ extracted' = <<>>
    /\ UNCHANGED <<deviceVars, inputVars, scale, mapVars, optVars, gcode_file>>

NextRerun == StrokeProcessorInit \/ Extract \/ ExtractAgain

\* two extraction runs on one mask
SpecRerun == Init /\ [][NextRerun]_vars

\* the serial applications start beside a conversion pipeline that is not run
InitDevices ==
    /\ img_w = 0
    /\ img_h = 0
    /\ skeleton = {}
    /\ plotter_w = PLOTTER_PHYSICAL_LIMIT_X_MM
    /\ plotter_h = PLOTTER_PHYSICAL_LIMIT_Y_MM
    /\ cal \in PipelineCalibrations
    /\ InitLocals

\* the worker thread of a job
Worker(t) ==
    \/ WorkerLoop(t)
    \/ WorkerFlushInput(t)
    \/ WorkerWrite(t)
    \/ WorkerSerialException(t)
    \/ WorkerRead(t)
    \/ WorkerTimeout(t)
    \/ WorkerFinally(t)

\* the handlers that talk to the port from the main loop
Handler ==
    \/ \E handler \in Handlers : HandlerFlushInput(handler)
    \/ HandlerWrite
    \/ HandlerRead
    \/ HandlerTimeout

\* GcodeSenderApp: the main loop, the worker threads and the device
NextSender ==
    \/ LoadFile
    \/ TypeManual
    \/ StartSending
    \/ StopSending
    \/ FinalizeSending
    \/ Handler
    \/ \E t \in Threads : Worker(t)
    \/ DeviceRespond

SpecSender == InitDevices /\ [][NextSender]_vars

\* CalibrationApp: moves and resets
NextCollector == MoveMotor \/ ResetPositions

SpecCollector == InitDevices /\ [][NextCollector]_vars

(***************************************************************************)
(* Coordinate mapping: C5, C6, C7 (specification SpecMap).                 *)
(***************************************************************************)
\* the step value of a millimetre value that needs no clamping
StepsOfMm(axis, mm) == RoundHalfEven(RatAdd(RatMul(axis.slope, mm), axis.intercept))
physical_limit_steps(axis) == StepsOfMm(axis, RatInt(axis.physical_limit_mm))
Between(lo, v, hi) == (lo <= v /\ v <= hi) \/ (hi <= v /\ v <= lo)

\* C5 as stated: every mapped step coordinate lies within
\* [0, physical_limit_steps] on both axes.
C5_MappingFit_Original ==
    mapped # None =>
        /\ 0 <= mapped[1] /\ mapped[1] <= physical_limit_steps(cal.X)
        /\ 0 <= mapped[2] /\ mapped[2] <= physical_limit_steps(cal.Y)

\* C5 amended: the mapping is total and every mapped step coordinate lies between
\* the step value of 0 mm and the step value of physical_limit_mm of its axis.
C5_MappingFit ==
    mapped # None =>
        /\ Between(StepsOfMm(cal.X, RatInt(0)), mapped[1], physical_limit_steps(cal.X))
        /\ Between(StepsOfMm(cal.Y, RatInt(0)), mapped[2], physical_limit_steps(cal.Y))

\* a pixel whose x millimetre value exceeds the travel limit has been mapped onto
\* the step value of the limit
C5_Witness ==
    /\ mapped # None
    /\ RatLess(RatInt(cal.X.physical_limit_mm), plotter_x_mm(point))
    /\ mapped[1] = physical_limit_steps(cal.X)

\* C6: for width > 0 and height > 0 the scale of __init__ is
\* min(plotter_w / img_w, plotter_h / img_h), also when both ratios are equal, so
\* img_w * scale <= plotter_w and img_h * scale <= plotter_h.
C6_ScaleToFit ==
    (pc # "new" /\ img_w > 0 /\ img_h > 0) =>
        /\ RatLeq(scale, Rat(plotter_w, img_w))
        /\ RatLeq(scale, Rat(plotter_h, img_h))
        /\ RatEq(scale, Rat(plotter_w, img_w)) \/ RatEq(scale, Rat(plotter_h, img_h))
        /\ RatLeq(RatMul(RatInt(img_w), scale), RatInt(plotter_w))
        /\ RatLeq(RatMul(RatInt(img_h), scale), RatInt(plotter_h))

\* a constructed processor whose two ratios differ, the height being the tight axis
C6_Witness ==
    /\ pc = "constructed"
    /\ img_w > 0 /\ img_h > 0
    /\ RatLess(Rat(plotter_h, img_h), Rat(plotter_w, img_w))
    /\ RatEq(scale, Rat(plotter_h, img_h))

\* v is r rounded to the nearest integer, a tie going to the even one
IsRounded(r, v) ==
    LET diff == RatSub(r, RatInt(v))
        twice == IF diff[1] < 0 THEN -2 * diff[1] ELSE 2 * diff[1]
    IN  \/ twice < diff[2]
        \/ twice = diff[2] /\ v % 2 = 0

\* mm clamped to [0, limit]
Clamped(mm, limit) ==
    IF RatLess(mm, RatInt(0)) THEN RatInt(0)
    ELSE IF RatLess(RatInt(limit), mm) THEN RatInt(limit) ELSE mm

ScenarioA ==
    /\ img_w = 5 /\ img_h = 5 /\ plotter_w = 100 /\ plotter_h = 100
    /\ cal.X = AxisCal(Rat(1, 1), Rat(0, 1), 156)
    /\ cal.Y = cal.X

\* C7: pixel (x, y) maps to mm_x = x * scale and mm_y = plotter_h - y * scale; each is
\* clamped to [0, physical_limit_mm] and only then turned into
\* round(slope * mm + intercept); in Scenario A pixel (x, 2) maps to (20 x, 60).
C7_MappingFormula ==
    mapped # None =>
        LET mm_x == Rat(point[1] * scale[1], scale[2])
            mm_y == Rat(plotter_h * scale[2] - point[2] * scale[1], scale[2])
            cx == Clamped(mm_x, cal.X.physical_limit_mm)
            cy == Clamped(mm_y, cal.Y.physical_limit_mm)
        IN  /\ IsRounded(RatAdd(RatMul(cal.X.slope, cx), cal.X.intercept), mapped[1])
            /\ IsRounded(RatAdd(RatMul(cal.Y.slope, cy), cal.Y.intercept), mapped[2])
            /\ (ScenarioA /\ point[2] = 2) => mapped = <<20 * point[1], 60>>

\* Scenario A's last pixel (4, 2) has been mapped to (80, 60)
C7_Witness ==
    /\ ScenarioA
    /\ point = <<4, 2>>
    /\ mapped = <<80, 60>>

(***************************************************************************)
(* Stroke extraction: C1, C2, C3, C8, C9.                                  *)
(***************************************************************************)
\* _extract_strokes has returned (extracted is the list it returned)
Returned == pc \in {"extracted", "optimize", "done"}

\* the undirected edges of the 8-connectivity graph of the foreground pixels
MaskEdges == {{p, q} : p, q \in skeleton} \ {{p} : p \in skeleton}
GraphEdges == {e \in MaskEdges : \E p, q \in e : Adjacent8(p, q)}

\* the places <<k, i>> where stroke k of strks goes from its point i to point i + 1
Traversals(strks) ==
    {t \in (1 .. Len(strks)) \X (1 .. MaxFg + 1) : t[2] < Len(strks[t[1]])}
TraversalsOf(e, strks) ==
    {t \in Traversals(strks) : {strks[t[1]][t[2]], strks[t[1]][t[2] + 1]} = e}

IsEndpoint(p) == neighbors(p) = 11
IsInterior(p) == neighbors(p) = 12
IsJunction(p) == neighbors(p) >= 13
IsIsolated(p) == neighbors(p) = 10

\* the foreground pixels connected to the pixels of R
RECURSIVE Component(_)
Component(R) ==
    LET more == {q \in skeleton : \E p \in R : Adjacent8(p, q)} \ R
    IN  IF more = {} THEN R ELSE Component(R \cup more)
Connected == \A p \in skeleton : Component({p}) = skeleton

\* C1: the strokes returned by _extract_strokes traverse every undirected edge of
\* the 8-connectivity graph of the foreground pixels exactly once: no edge is
\* omitted and none appears twice.
C1_EdgeCoverage ==
    Returned =>
        \A e \in GraphEdges : Cardinality(TraversalsOf(e, extracted)) = 1

\* C2: every foreground pixel appears in at least one returned stroke.
C2_PixelCoverage ==
    Returned =>
        \A p \in skeleton : \E k \in 1 .. Len(extracted) : p \in PointsOf(extracted[k])

\* returned strokes of a mask that has a junction, an endpoint and an isolated pixel
C2_Witness ==
    /\ pc = "extracted"
    /\ \E p \in skeleton : IsJunction(p)
    /\ \E p \in skeleton : IsEndpoint(p)
    /\ \E p \in skeleton : IsIsolated(p)
    /\ Len(extracted) >= 3

IsOpenChain ==
    /\ Connected
    /\ Cardinality({p \in skeleton : IsEndpoint(p)}) = 2
    /\ \A p \in skeleton : IsEndpoint(p) \/ IsInterior(p)

\* seq lists every pixel of the mask once and goes from neighbour to neighbour
IsPathThroughMask(seq) ==
    /\ PointsOf(seq) = skeleton
    /\ Len(seq) = Cardinality(skeleton)
    /\ \A i \in 1 .. Len(seq) - 1 : Adjacent8(seq[i], seq[i + 1])

\* C8: for a mask that is one open chain, _extract_strokes returns exactly one
\* stroke; it holds all pixels of the chain in path order and its first and last
\* points are the two Endpoint pixels.
C8_SingleOpenChain ==
    (Returned /\ IsOpenChain) =>
        /\ Len(extracted) = 1
        /\ IsPathThroughMask(extracted[1])
        /\ IsEndpoint(extracted[1][1])
        /\ IsEndpoint(Last(extracted[1]))

\* the mask is one cycle without junction or endpoint
IsPureCycle ==
    /\ skeleton # {}
    /\ Connected
    /\ \A p \in skeleton : IsInterior(p)

\* C9: for a mask that is a single pure cycle, _extract_strokes returns exactly
\* one stroke, the stroke is closed (first point = last point), and every loop
\* pixel occurs in it exactly once apart from that repeated start point.
C9_PureClosedLoop ==
    (Returned /\ IsPureCycle) =>
        /\ Len(extracted) = 1
        /\ extracted[1][1] = Last(extracted[1])
        /\ Len(extracted[1]) = Cardinality(skeleton) + 1
        /\ PointsOf(extracted[1]) = skeleton

(***************************************************************************)
(* Stroke ordering: C4, C10.                                               *)
(***************************************************************************)
\* the largest r in lo .. hi with r * r <= n
RECURSIVE ISqrtIn(_, _, _)
ISqrtIn(n, lo, hi) ==
    IF lo = hi THEN lo
    ELSE LET mid == (lo + hi + 1) \div 2
         IN  IF mid * mid <= n THEN ISqrtIn(n, mid, hi) ELSE ISqrtIn(n, lo, mid - 1)

\* bounds of 100 * sqrt(d2) in hundredths of a step:
\* SqrtLo(d2) <= 100 * sqrt(d2) <= SqrtHi(d2)
SqrtLo(d2) == ISqrtIn(d2 * 10000, 0, 46340)
SqrtHi(d2) == IF SqrtLo(d2) * SqrtLo(d2) = d2 * 10000 THEN SqrtLo(d2) ELSE SqrtLo(d2) + 1

\* the pen-up travel of a G-code sequence from line i on, the pen being at pos:
\* the distances from the position reached so far to the target of each
\* "G0 X.. Y.." line; <<lower bound, upper bound>> in hundredths of a step
RECURSIVE GcodeTravel(_, _, _)
GcodeTravel(lines, i, pos) ==
    IF i > Len(lines) THEN <<0, 0>>
    ELSE IF Len(lines[i]) # 3 THEN GcodeTravel(lines, i + 1, pos)
    ELSE LET target == <<lines[i][2], lines[i][3]>>
             rest == GcodeTravel(lines, i + 1, target)
         IN  IF lines[i][1] = "G0"
             THEN <<SqrtLo(Dist2(pos, target)) + rest[1],
                    SqrtHi(Dist2(pos, target)) + rest[2]>>
             ELSE rest

\* the pen-up travel of strokes k .. of strks drawn in the given order and
\* orientation, the pen being at pos: <<lower bound, upper bound>>
RECURSIVE OrderTravel(_, _, _)
OrderTravel(strks, k, pos) ==
    IF k > Len(strks) THEN <<0, 0>>
    ELSE LET first == map_to_plotter_coords(strks[k][1])
             rest == OrderTravel(strks, k + 1, map_to_plotter_coords(Last(strks[k])))
         IN  <<SqrtLo(Dist2(pos, first)) + rest[1], SqrtHi(Dist2(pos, first)) + rest[2]>>

\* C4 as stated: for at least 2 strokes the total pen-up travel of the order and
\* orientations chosen by the optimizer, starting from (0,0), is at most that of
\* the strokes in extraction order and orientation.  (A total that is larger makes
\* its lower bound exceed the upper bound of the other.)
C4_NonRegression_Original ==
    (pc = "done" /\ Len(extracted) >= 2) =>
        GcodeTravel(gcode_lines, 1, <<0, 0>>)[1] <= OrderTravel(extracted, 1, <<0, 0>>)[2]

\* C4 amended: for at least 2 strokes the first pen-up travel of the optimizer's
\* order, from (0,0) to the mapped first point of the first stroke drawn, is at
\* most the distance from (0,0) to the mapped first point of the first stroke in
\* extraction order.
C4_FirstTravel ==
    (pc \in {"optimize", "done"} /\ Len(extracted) >= 2 /\ gcode_lines # <<>>) =>
        /\ gcode_lines[2][1] = "G0"
        /\ Dist2(<<0, 0>>, <<gcode_lines[2][2], gcode_lines[2][3]>>)
              <= Dist2(<<0, 0>>, map_to_plotter_coords(extracted[1][1]))

\* a finished run on at least 2 strokes whose first travel is strictly shorter than
\* the travel to the first stroke of the extraction order
C4_Witness ==
    /\ pc = "done"
    /\ Len(extracted) >= 2
    /\ Dist2(<<0, 0>>, <<gcode_lines[2][2], gcode_lines[2][3]>>)
          < Dist2(<<0, 0>>, map_to_plotter_coords(extracted[1][1]))

\* the smaller of the squared distances from cur to the two mapped ends of the
\* stroke at position i of the remaining list
EndDist2(strks, rem, cur, i) ==
    LET d_start == Dist2(map_to_plotter_coords(strks[rem[i]][1]), cur)
        d_end == Dist2(map_to_plotter_coords(Last(strks[rem[i]])), cur)
    IN  IF d_end < d_start THEN d_end ELSE d_start

\* an iteration of the optimizer loop is taken
OptimizerIteration ==
    /\ pc = "optimize"
    /\ remaining_strokes # <<>>
    /\ Len(remaining_strokes') = Len(remaining_strokes) - 1

\* C10: in every iteration the stroke removed from the remaining list has an end
\* at the smallest distance to the current position among both ends of all
\* remaining strokes; among ties the first stroke of the list is taken and, within
\* the stroke, its first point is preferred over its last; the position starts at
\* (0,0).
C10_GreedySelection ==
    [][OptimizerIteration =>
        \E k \in 1 .. Len(remaining_strokes) :
            LET ref == remaining_strokes[k]
                dmin == EndDist2(strokes, remaining_strokes, current_pos, k)
            IN  /\ remaining_strokes' = RemoveAt(remaining_strokes, k)
                /\ \A j \in 1 .. Len(remaining_strokes) :
                      dmin <= EndDist2(strokes, remaining_strokes, current_pos, j)
                /\ \A j \in 1 .. k - 1 :
                      dmin < EndDist2(strokes, remaining_strokes, current_pos, j)
                /\ Dist2(map_to_plotter_coords(strokes[ref][1]), current_pos) = dmin
                      => strokes'[ref] = strokes[ref]
                /\ Dist2(map_to_plotter_coords(strokes'[ref][1]), current_pos) = dmin
                /\ gcode_lines = <<>> => current_pos = <<0, 0>>
    ]_vars

\* after at least one iteration: two remaining strokes tie for the smallest
\* distance, and a stroke whose two ends tie is among them
C10_Witness ==
    /\ pc = "optimize"
    /\ gcode_lines # <<>>
    /\ \E i, j \in 1 .. Len(remaining_strokes) :
          /\ i < j
          /\ EndDist2(strokes, remaining_strokes, current_pos, i)
                = EndDist2(strokes, remaining_strokes, current_pos, j)
          /\ \A m \in 1 .. Len(remaining_strokes) :
                EndDist2(strokes, remaining_strokes, current_pos, i)
                    <= EndDist2(strokes, remaining_strokes, current_pos, m)

(***************************************************************************)
(* Orientation of the chosen stroke and its block of commands: C11, C12.   *)
(***************************************************************************)
\* the element of strokes that the iteration removes from the remaining list
RemovedRef == CHOOSE r \in 1 .. Len(strokes) :
                 /\ \E k \in 1 .. Len(remaining_strokes) : remaining_strokes[k] = r
                 /\ \A k \in 1 .. Len(remaining_strokes') : remaining_strokes'[k] # r

\* C11: the chosen stroke is reversed exactly when its mapped last point is
\* strictly closer to the current position than its mapped first point; the
\* emitted stroke begins (travel move and first point) at the end that attains
\* the smaller distance, and afterwards the current position is the mapped last
\* point of the stroke in its emitted orientation.
C11_OrientationAndPosition ==
    [][OptimizerIteration =>
        LET s == strokes[RemovedRef]
            emitted == strokes'[RemovedRef]
            d_start == Dist2(map_to_plotter_coords(s[1]), current_pos)
            d_end == Dist2(map_to_plotter_coords(Last(s)), current_pos)
        IN  /\ emitted = IF d_end < d_start THEN Reverse(s) ELSE s
            /\ Dist2(map_to_plotter_coords(emitted[1]), current_pos)
                  = IF d_end < d_start THEN d_end ELSE d_start
            /\ gcode_lines'[Len(gcode_lines) + 2] = TravelTo(map_to_plotter_coords(emitted[1]))
            /\ current_pos' = map_to_plotter_coords(Last(emitted))
    ]_vars

\* an earlier iteration has reversed a stroke, and the stroke that the next
\* iteration chooses has two distinct ends at the same distance
C11_Witness ==
    /\ pc = "optimize"
    /\ remaining_strokes # <<>>
    /\ \E i \in 1 .. Len(strokes) :
          /\ \A k \in 1 .. Len(remaining_strokes) : remaining_strokes[k] # i
          /\ strokes[i] # extracted[i]
    /\ LET s == strokes[remaining_strokes[BestStrokeIdx(strokes, remaining_strokes,
                                                        current_pos)]]
       IN  /\ s # Reverse(s)
           /\ Dist2(map_to_plotter_coords(s[1]), current_pos)
                 = Dist2(map_to_plotter_coords(Last(s)), current_pos)

\* the block of a stroke of k points with the drawing moves starting at point
\* number "from"
BlockFrom(stroke, from) ==
    <<PEN_UP_COMMAND, TravelTo(map_to_plotter_coords(stroke[1])), PEN_DOWN_COMMAND>>
        \o [i \in 1 .. Len(stroke) - from + 1 |->
                DrawTo(map_to_plotter_coords(stroke[i + from - 1]))]

\* C12 as stated: the block of a stroke p1..pk is pen up, a move to p1, pen
\* down and one move for each of p2..pk: k moves and k+2 commands, p1 not moved
\* to a second time.
C12_StrokeBlock_Original ==
    [][OptimizerIteration =>
        LET emitted == strokes'[RemovedRef]
        IN  /\ gcode_lines' = gcode_lines \o BlockFrom(emitted, 2)
            /\ Len(gcode_lines') = Len(gcode_lines) + Len(emitted) + 2
    ]_vars

\* a line of the command list is a move in X and Y
IsMove(line) == Len(line) = 3

\* C12: the block of a stroke p1..pk is pen up, a travel move (G0) to p1, pen
\* down and one drawing move (G1) for each of p1..pk, the first point included:
\* k+1 moves and k+3 commands.
C12_StrokeBlock ==
    [][OptimizerIteration =>
        LET emitted == strokes'[RemovedRef]
            k == Len(emitted)
            n == Len(gcode_lines)
        IN  /\ Len(gcode_lines') = n + k + 3
            /\ \A i \in 1 .. n : gcode_lines'[i] = gcode_lines[i]
            /\ gcode_lines'[n + 1] = PEN_UP_COMMAND
            /\ gcode_lines'[n + 2] = <<"G0", map_to_plotter_coords(emitted[1])[1],
                                              map_to_plotter_coords(emitted[1])[2]>>
            /\ gcode_lines'[n + 3] = PEN_DOWN_COMMAND
            /\ \A i \in 1 .. k :
                  gcode_lines'[n + 3 + i] = <<"G1", map_to_plotter_coords(emitted[i])[1],
                                                    map_to_plotter_coords(emitted[i])[2]>>
            /\ Cardinality({i \in n + 1 .. n + k + 3 : IsMove(gcode_lines'[i])}) = k + 1
    ]_vars

\* the optimizer has finished and the list holds the block of a stroke of one
\* point and the block of a stroke of three points
C12_Witness ==
    /\ pc = "done"
    /\ \E i, j \in 1 .. Len(strokes) :
          /\ Len(strokes[i]) = 1
          /\ Len(strokes[j]) = 3
          /\ Len(gcode_lines) >= 4 + 6
          /\ \E n \in 0 .. Len(gcode_lines) - 4 :
                 /\ gcode_lines[n + 2] = TravelTo(map_to_plotter_coords(strokes[i][1]))
                 /\ gcode_lines[n + 3] = PEN_DOWN_COMMAND
                 /\ gcode_lines[n + 4] = DrawTo(map_to_plotter_coords(strokes[i][1]))

(***************************************************************************)
(* The written file: C13.                                                  *)
(***************************************************************************)
IsCommand(line) == line[1] # ";"
IsDrawingMove(line) == line[1] = "G1"

\* the lines of the file that are commands
Commands(file) == SelectSeq(file, IsCommand)

\* C13: in the written file the commands of the last stroke (they end with the
\* drawing move to the mapped last point of the stroke drawn last) are followed
\* by the pen-up command and then by the move to the origin X0 Y0, and no
\* drawing move follows.
C13_ClosingSequence ==
    pc = "saved" =>
        LET cmds == Commands(gcode_file)
        IN  \E n \in Len(gcode_lines) .. Len(cmds) - 2 :
                /\ cmds[n] = Last(gcode_lines)
                /\ cmds[n] = DrawTo(current_pos)
                /\ \A i \in 1 .. Len(gcode_lines) :
                      cmds[n - Len(gcode_lines) + i] = gcode_lines[i]
                /\ cmds[n + 1] = PEN_UP_COMMAND
                /\ cmds[n + 2] = <<"G0", 0, 0>>
                /\ \A i \in n + 1 .. Len(cmds) : ~IsDrawingMove(cmds[i])

\* a file with the blocks of two strokes has been written, and the stroke drawn
\* last ends away from the origin
C13_Witness ==
    /\ pc = "saved"
    /\ Len(extracted) = 2
    /\ current_pos # <<0, 0>>
    /\ Len(gcode_file) = Len(gcode_lines) + 12

(***************************************************************************)
(* Masks without foreground and images without pixels: C14, C15.           *)
(***************************************************************************)
\* C14 as stated: convert() on a mask of positive size without foreground
\* succeeds, extraction yields the empty stroke list, and the command list is
\* the closing sequence alone (pen up, move to the origin).
C14_AllBackground_Original ==
    (pc = "done" /\ img_w > 0 /\ img_h > 0 /\ skeleton = {}) =>
        /\ extracted = <<>>
        /\ gcode_lines = <<PEN_UP_COMMAND, TravelTo(<<0, 0>>)>>

\* C14: convert() on a mask of positive size without foreground succeeds:
\* extraction yields the empty stroke list without tracing anything, and the
\* command list convert() returns is empty (the closing sequence is not in it).
C14_AllBackground ==
    (img_w > 0 /\ img_h > 0 /\ skeleton = {}) =>
        /\ pc \in {"new", "constructed", "extracted", "done"}
        /\ strokes = <<>> /\ extracted = <<>>
        /\ visited = {} /\ p_idx = 0
        /\ gcode_lines = <<>>
        /\ gcode_file = None

\* convert() has returned for the largest mask without foreground
C14_Witness ==
    /\ pc = "done"
    /\ img_w = MaxW /\ img_h = MaxH
    /\ skeleton = {}
    /\ gcode_lines = <<>>

\* C15 as stated: a run on an image of width 0 or height 0 fails with
\* InvalidInput before the traversal: the processor is never constructed.
C15_ZeroDimension_Original ==
    (img_w = 0 \/ img_h = 0) => pc \in {"new", "InvalidInput"}

\* C15: a run on an image of width 0 or height 0 raises nothing: the scale is
\* set to 0, extraction returns the empty list before any traversal, and
\* convert() returns the empty command list.
C15_ZeroDimension ==
    (img_w = 0 \/ img_h = 0) =>
        /\ pc \in {"new", "constructed", "extracted", "done"}
        /\ scale = RatInt(0)
        /\ strokes = <<>> /\ extracted = <<>>
        /\ visited = {} /\ p_idx = 0
        /\ gcode_lines = <<>>

\* convert() has returned for an image of height 0 and positive width
C15_Witness ==
    /\ pc = "done"
    /\ img_w > 0 /\ img_h = 0
    /\ scale = RatInt(0)
    /\ gcode_lines = <<>>

(***************************************************************************)
(* Termination of the extraction: C16.                                     *)
(***************************************************************************)
\* C16: _extract_strokes finishes on every mask: the extension loop of a
\* phase-1 path always comes to its end, the sweep always empties the set of
\* remaining pixels, and the call returns.
C16_ExtractionTerminates ==
    /\ (pc = "extend") ~> (pc = "dirs")
    /\ (pc = "phase2") ~> (pc = "extracted" /\ remaining_pixels = {})
    /\ <>(pc = "extracted")

\* the call has returned after an extension loop that appended a pixel and a
\* sweep that emptied a set of remaining pixels which was not empty
C16_Witness ==
    /\ pc = "extracted"
    /\ remaining_pixels = {}
    /\ \E i, j \in 1 .. Len(extracted) :
          /\ Len(extracted[i]) >= 3
          /\ <<extracted[i][1], extracted[i][2]>> \in visited
          /\ \A q \in skeleton : <<extracted[j][1], q>> \notin visited

(***************************************************************************)
(* The strokes and the classes of their pixels: C17, C18, C19, C20.        *)
(***************************************************************************)
\* the positions in seq of the strokes that contain pixel p
StrokesWith(seq, p) == {k \in 1 .. Len(seq) : p \in PointsOf(seq[k])}

\* the command list lowers the pen at the mapped position of p: a travel move
\* to it is followed by the pen-down command
PenLoweredAt(p) ==
    \E n \in 1 .. Len(gcode_lines) - 1 :
        /\ gcode_lines[n] = TravelTo(map_to_plotter_coords(p))
        /\ gcode_lines[n + 1] = PEN_DOWN_COMMAND

\* C17: a foreground pixel without foreground neighbours is not dropped and is
\* in no stroke of two or more points: exactly one returned stroke contains it,
\* and that stroke is the single point; the command list of the finished
\* conversion lowers the pen at its mapped position.
C17_IsolatedPixel ==
    Returned =>
        \A p \in skeleton :
            IsIsolated(p) =>
                /\ Cardinality(StrokesWith(extracted, p)) = 1
                /\ \A k \in StrokesWith(extracted, p) : extracted[k] = <<p>>
                /\ pc = "done" => PenLoweredAt(p)

\* the conversion has finished for a mask with an isolated pixel and a stroke
\* of more points
C17_Witness ==
    /\ pc = "done"
    /\ \E p \in skeleton : IsIsolated(p) /\ PenLoweredAt(p)
    /\ \E k \in 1 .. Len(extracted) : Len(extracted[k]) >= 2

IsAnchorEnd(p) == IsEndpoint(p) \/ IsJunction(p)

\* C18: every returned open stroke of two or more points begins and ends at an
\* Endpoint or a Junction, never at an Interior pixel, and every Endpoint pixel
\* is the first or the last point of some stroke.
C18_BoundedByAnchors ==
    Returned =>
        /\ \A k \in 1 .. Len(extracted) :
              (Len(extracted[k]) >= 2 /\ extracted[k][1] # Last(extracted[k])) =>
                  /\ IsAnchorEnd(extracted[k][1])
                  /\ IsAnchorEnd(Last(extracted[k]))
        /\ \A p \in skeleton :
              IsEndpoint(p) =>
                  \E k \in 1 .. Len(extracted) :
                      p = extracted[k][1] \/ p = Last(extracted[k])

\* C19: when the traversal from the anchors has finished, every foreground
\* pixel that is in no stroke belongs to a pure cycle (a component of Interior
\* pixels only): no Endpoint and no pixel of a component with an Endpoint is
\* left for the sweep.
C19_ResidueOfPhase1 ==
    pc = "phase2" =>
        \A p \in remaining_pixels :
            \A q \in Component({p}) : IsInterior(q)

\* C20: in every returned stroke each two consecutive points are distinct
\* 8-adjacent foreground pixels, and no pixel occurs twice, except that the
\* first and the last point may be the same pixel.
C20_WellFormedStrokes ==
    Returned =>
        \A k \in 1 .. Len(extracted) :
            LET s == extracted[k]
            IN  /\ Len(s) >= 1
                /\ \A i \in 1 .. Len(s) : s[i] \in skeleton
                /\ \A i \in 1 .. Len(s) - 1 : Adjacent8(s[i], s[i + 1])
                /\ \A i, j \in 1 .. Len(s) :
                      (i < j /\ s[i] = s[j]) => (i = 1 /\ j = Len(s))

\* the call has returned a stroke that comes back to the pixel it started from
\* and an open stroke of three points
C20_Witness ==
    /\ Returned
    /\ \E k \in 1 .. Len(extracted) :
          /\ Len(extracted[k]) >= 3
          /\ extracted[k][1] = Last(extracted[k])
    /\ \E k \in 1 .. Len(extracted) :
          /\ Len(extracted[k]) >= 3
          /\ extracted[k][1] # Last(extracted[k])

(***************************************************************************)
(* The optimizer draws every stroke once: C21.                             *)
(***************************************************************************)
\* the positions of the command list at which the block of a stroke begins
BlockStarts == {n \in 1 .. Len(gcode_lines) : gcode_lines[n] = PEN_UP_COMMAND}

\* the blocks of the first n lines of the command list, followed by acc: a block
\* runs from a pen-up line up to the next one; cur holds the lines after n that
\* belong to the block line n is in
RECURSIVE BlocksOf(_, _, _)
BlocksOf(n, cur, acc) ==
    IF n = 0 THEN acc
    ELSE IF gcode_lines[n] = PEN_UP_COMMAND
         THEN BlocksOf(n - 1, <<>>, <<(<<gcode_lines[n]>> \o cur)>> \o acc)
         ELSE BlocksOf(n - 1, <<gcode_lines[n]>> \o cur, acc)

\* the strokes that have been removed from the remaining list
Emitted ==
    {i \in 1 .. Len(strokes) :
        \A k \in 1 .. Len(remaining_strokes) : remaining_strokes[k] # i}

\* the blocks of the first k strokes, each in its final orientation
RECURSIVE StrokeBlocks(_)
StrokeBlocks(k) ==
    IF k = 0 THEN <<>> ELSE Append(StrokeBlocks(k - 1), StrokeBlock(strokes[k]))

\* C21: the optimizer emits a permutation of its input.  While the loop runs
\* the remaining list holds distinct strokes, the command list has as many
\* blocks as strokes have been removed, and every stroke has the points
\* returned by the extraction, in the original or in the reversed order; when
\* the loop has ended after n iterations the command list consists of the
\* blocks of the n strokes, each as often as the stroke occurs: every stroke
\* has been drawn exactly once.
C21_Permutation ==
    pc \in {"optimize", "done"} =>
        /\ Len(strokes) = Len(extracted)
        /\ \A i \in 1 .. Len(strokes) :
              strokes[i] = extracted[i] \/ strokes[i] = Reverse(extracted[i])
        /\ \A k \in 1 .. Len(remaining_strokes) :
              /\ remaining_strokes[k] \in 1 .. Len(strokes)
              /\ strokes[remaining_strokes[k]] = extracted[remaining_strokes[k]]
              /\ \A m \in 1 .. Len(remaining_strokes) :
                    remaining_strokes[m] = remaining_strokes[k] => m = k
        /\ Cardinality(BlockStarts) = Cardinality(Emitted)
        /\ Cardinality(Emitted) + Len(remaining_strokes) = Len(strokes)
        /\ pc = "done" =>
              /\ remaining_strokes = <<>>
              /\ Emitted = 1 .. Len(strokes)
              /\ \E block \in {StrokeBlocks(Len(strokes))},
                    found \in {BlocksOf(Len(gcode_lines), <<>>, <<>>)} :
                    \A i \in 1 .. Len(block) :
                       Cardinality({n \in 1 .. Len(found) : found[n] = block[i]})
                          = Cardinality({j \in 1 .. Len(block) : block[j] = block[i]})

\* the loop has ended after three iterations, one of which drew its stroke in
\* the reversed order
C21_Witness ==
    /\ pc = "done"
    /\ Len(extracted) = 3
    /\ Cardinality(BlockStarts) = 3
    /\ \E i \in 1 .. 3 : strokes[i] # extracted[i]

(***************************************************************************)
(* No edge is drawn twice: C22.                                            *)
(***************************************************************************)
\* C22: across all strokes returned by _extract_strokes no undirected pair of
\* adjacent pixels occurs as consecutive points more than once.  (The list is
\* looked at when the call returns; nothing changes it afterwards.)
C22_NoEdgeTwice ==
    pc = "extracted" =>
        \A e \in GraphEdges : Cardinality(TraversalsOf(e, extracted)) <= 1

\* the call has returned three or more strokes for a mask in which two
\* Junctions are neighbours: a phase-1 path runs from one Junction to the
\* other, and the trace from the other Junction back is not started
C22_Witness ==
    /\ Returned
    /\ Len(extracted) >= 3
    /\ \E k \in 1 .. Len(extracted) :
          /\ Len(extracted[k]) = 2
          /\ IsJunction(extracted[k][1])
          /\ IsJunction(extracted[k][2])
          /\ <<extracted[k][2], extracted[k][1]>> \in visited
          /\ Cardinality(TraversalsOf({extracted[k][1], extracted[k][2]}, extracted)) = 1

(***************************************************************************)
(* The pen while the file is executed: C23.                                *)
(***************************************************************************)
IsPenCommand(line) == line = PEN_UP_COMMAND \/ line = PEN_DOWN_COMMAND
IsTravelMove(line) == Len(line) = 3 /\ line[1] = "G0"

\* the pen command in force when command i of cmds is executed: the last pen
\* command before it, or None when there is none
PenBefore(cmds, i) ==
    LET before == {j \in 1 .. i - 1 : IsPenCommand(cmds[j])}
    IN  IF before = {} THEN None
        ELSE cmds[CHOOSE j \in before : \A j2 \in before : j2 <= j]

\* C23: in the written file, read from top to bottom, every G1 drawing move
\* is executed with the pen down and every G0 travel move in X and Y, the final
\* return to X0 Y0 included, with the pen up.
C23_PenStateSafety ==
    pc = "saved" =>
        LET cmds == Commands(gcode_file)
        IN  \A i \in 1 .. Len(cmds) :
                /\ IsDrawingMove(cmds[i]) => PenBefore(cmds, i) = PEN_DOWN_COMMAND
                /\ IsTravelMove(cmds[i]) => PenBefore(cmds, i) = PEN_UP_COMMAND

\* a file with the blocks of three strokes has been written: it holds travel
\* moves between strokes, drawing moves, and the return to the origin
C23_Witness ==
    /\ pc = "saved"
    /\ Len(extracted) = 3
    /\ \E i \in 1 .. Len(gcode_file) : IsDrawingMove(gcode_file[i])
    /\ Cardinality({i \in 1 .. Len(gcode_file) : IsTravelMove(gcode_file[i])}) = 4
    /\ gcode_file[Len(gcode_file) - 1] = TravelTo(<<0, 0>>)

(***************************************************************************)
(* Millimetre values of the pixels of the image: C24.                      *)
(***************************************************************************)
InRange(mm, limit) == RatLeq(RatInt(0), mm) /\ RatLeq(mm, RatInt(limit))

\* C24: for every pixel of the image the millimetre values of
\* _map_to_plotter_coords lie in [0, plotter_w] and [0, plotter_h]; hence, when
\* the travel limit of an axis equals the plotter dimension, clamping leaves
\* them as they are and two distinct columns (rows) keep distinct values.
C24_NoClampingNeeded ==
    pc = "constructed" =>
        \A p \in Grid(img_w, img_h) :
            /\ InRange(plotter_x_mm(p), plotter_w)
            /\ InRange(plotter_y_mm(p), plotter_h)
            /\ cal.X.physical_limit_mm = plotter_w =>
                  /\ RatEq(ClampMm(cal.X, plotter_x_mm(p)), plotter_x_mm(p))
                  /\ \A q \in Grid(img_w, img_h) :
                        p[1] # q[1] => ~RatEq(ClampMm(cal.X, plotter_x_mm(p)),
                                              ClampMm(cal.X, plotter_x_mm(q)))
            /\ cal.Y.physical_limit_mm = plotter_h =>
                  /\ RatEq(ClampMm(cal.Y, plotter_y_mm(p)), plotter_y_mm(p))
                  /\ \A q \in Grid(img_w, img_h) :
                        p[2] # q[2] => ~RatEq(ClampMm(cal.Y, plotter_y_mm(p)),
                                              ClampMm(cal.Y, plotter_y_mm(q)))

\* the last pixel of an image of the largest width and a smaller height has
\* been mapped, the plotter being wider than high and the travel limits equal
\* to the plotter dimensions on one axis at least
C24_Witness ==
    /\ pc = "constructed"
    /\ mapped # None
    /\ img_w = MaxMapDim /\ img_h > 1 /\ img_h < img_w
    /\ point = <<img_w - 1, img_h - 1>>
    /\ plotter_w > plotter_h
    /\ cal.X.physical_limit_mm = plotter_w


(***************************************************************************)
(* The sender: what the trace of a job shows.                              *)
(***************************************************************************)
\* positions of the trace at which the worker wrote a line
WorkerWrites == {n \in 1 .. Len(trace) : trace[n].by = "worker" /\ trace[n].op = "write"}

\* positions at which the worker's wait for an answer ended: with the first
\* non-empty line read, or with "" when the time-out elapsed
WorkerResponses == {n \in 1 .. Len(trace) : trace[n].by = "worker" /\ trace[n].op = "response"}

\* indices of the command lines of the loaded file
CommandLines == {k \in 1 .. Len(sender_lines) : ~IsCommentLine(sender_lines[k])}

\* line k was written and "OK" was read for it
AcknowledgedLine(k) ==
    \E n \in WorkerWrites, r \in WorkerResponses :
        /\ n < r
        /\ trace[n].i = k
        /\ trace[r].i = k
        /\ trace[r].response = "OK"

\* between start_sending and the end of _finalize_sending
JobRunning == (\E t \in Threads : Active(t)) \/ finalize_pending > 0

\* the job is over: the worker ended and _finalize_sending ran
JobOver == trace # <<>> /\ ~JobRunning /\ ui = UiIdle

\* C25: stop-and-wait sending.  The worker writes lines of the loaded file,
\* never a comment line, in file order and without leaving out a command
\* line; between two writes it has read "OK" for the earlier line; the
\* lines written exceed the lines acknowledged by at most one.
C25_StopAndWait ==
    /\ \A n \in WorkerWrites :
          /\ trace[n].i \in CommandLines
          /\ trace[n].line = sender_lines[trace[n].i]
          /\ \A k \in CommandLines :
                k < trace[n].i => \E m \in WorkerWrites : m < n /\ trace[m].i = k
    /\ \A n, m \in WorkerWrites :
          n < m =>
             /\ trace[n].i < trace[m].i
             /\ \E r \in WorkerResponses :
                   /\ n < r /\ r < m
                   /\ trace[r].i = trace[n].i
                   /\ trace[r].response = "OK"
    /\ Cardinality(WorkerWrites)
          <= Cardinality({r \in WorkerResponses : trace[r].response = "OK"}) + 1

\* a job that sent the two command lines of a file with a comment line between
\* them, the second one still unanswered
C25_Witness ==
    /\ Len(sender_lines) = 3
    /\ CommandLines = {1, 3}
    /\ \E t \in Threads : worker[t].at = "wait" /\ worker[t].i = 3
    /\ \E n, m \in WorkerWrites : trace[n].i = 1 /\ trace[m].i = 3
    /\ AcknowledgedLine(1)
    /\ ~AcknowledgedLine(3)

\* C26: abort on failure.  After a wait of the worker that ended with the
\* time-out ("") or with a first non-empty line other than "OK", the worker
\* writes no further line of the job.
C26_AbortOnFailure ==
    \A r \in WorkerResponses :
        trace[r].response # "OK" => \A n \in WorkerWrites : n < r

\* a finished job whose first command was answered with "error" while a
\* command line of the file was still to be sent
C26_Witness ==
    /\ JobOver
    /\ Cardinality(CommandLines) >= 2
    /\ Cardinality(WorkerWrites) = 1
    /\ \E r \in WorkerResponses : trace[r].response = "error"

\* every command line of the file was written and acknowledged with "OK"
JobComplete == \A k \in CommandLines : AcknowledgedLine(k)

\* C27: success is reported only for a complete job.  After the worker has
\* ended and _finalize_sending has run, the status is "Successfully sent"
\* only if every command line was written and acknowledged.
C27_SuccessOnlyIfComplete ==
    (JobOver /\ status_var = "Successfully sent") => JobComplete

\* C28: exclusive use of the port during a job.  Between start_sending and
\* the end of _finalize_sending no handler of the window has flushed or
\* written the port, none is running, and at most one worker thread is active.
C28_ExclusivePort ==
    JobRunning =>
       /\ \A n \in 1 .. Len(trace) : trace[n].by \notin Handlers
       /\ ui = UiIdle
       /\ Cardinality({t \in Threads : Active(t)}) <= 1

\* positions of the trace at which stop_sending cleared is_sending
StopRequests == {n \in 1 .. Len(trace) : trace[n].op = "stop_sending"}

\* the lines the worker wrote after a stop request
WrittenAfterStop == {m \in WorkerWrites : \E n \in StopRequests : n < m}

\* C29 as stated: after stop_sending has cleared is_sending the worker writes
\* no line.
C29_Original == WrittenAfterStop = {}

\* C29: after stop_sending has cleared is_sending the worker writes at most
\* one line, the one whose test of is_sending preceded the stop request, and
\* no line once it has tested the flag again.
C29_AtMostOneAfterStop ==
    /\ Cardinality(WrittenAfterStop) <= 1
    /\ \A t \in Threads :
          (Active(t) /\ ~is_sending /\ WrittenAfterStop # {})
             => worker[t].at \in {"wait", "loop", "finally"}

\* a finished job of a file with three command lines: the stop request came
\* between the test of the flag and the write of a line, the line was written
\* and acknowledged, and the last line was not sent
C29_Witness ==
    /\ JobOver
    /\ Cardinality(CommandLines) = 3
    /\ Cardinality(WrittenAfterStop) = 1
    /\ \E m \in WrittenAfterStop : trace[m].i = 2 /\ AcknowledgedLine(2)
    /\ Cardinality(WorkerWrites) = 2

(***************************************************************************)
(* The calibration collector.                                              *)
(***************************************************************************)
\* the position of the last reset in a list of events, 0 if there is none
RECURSIVE LastReset(_)
LastReset(events) ==
    IF events = <<>> THEN 0
    ELSE IF events[Len(events)].op = "reset_positions" THEN Len(events)
    ELSE LastReset(SubSeq(events, 1, Len(events) - 1))

\* the sum of the steps of the moves of an axis answered with exactly "OK"
\* among the events from position from on
RECURSIVE AcknowledgedSteps(_, _, _)
AcknowledgedSteps(axis, events, from) ==
    IF from > Len(events) THEN 0
    ELSE (IF /\ events[from].op = "move_motor"
             /\ events[from].axis = axis
             /\ events[from].response = "OK"
          THEN events[from].steps ELSE 0)
         + AcknowledgedSteps(axis, events, from + 1)

\* C30: the tracked position follows acknowledged moves only.  After any
\* sequence of moves and resets current_steps[axis] is the sum of the steps
\* of the moves of that axis answered with exactly "OK" since the last
\* reset; so a move answered otherwise changes no tracked position and a
\* move changes the position of its own axis only.
C30_TrackedPosition ==
    \A axis \in Axes :
        current_steps[axis] = AcknowledgedSteps(axis, moves, LastReset(moves) + 1)

\* an acknowledged move, a reset, then an acknowledged move of another axis
\* and a move of the same axis answered with "ok"
C30_Witness ==
    /\ Len(moves) = 4
    /\ moves[1] = Event("move_motor", "X", 100, "OK")
    /\ moves[2].op = "reset_positions"
    /\ moves[3] = Event("move_motor", "Y", -250, "OK")
    /\ moves[4] = Event("move_motor", "Y", 100, "ok")
    /\ current_steps = [axis \in Axes |-> IF axis = "Y" THEN -250 ELSE 0]

=============================================================================
